---- MODULE Spec2Model ----
(***************************************************************************)
(* Model of the Model component of the Voyager explorer                    *)
(* (source/client/explorer/components/Model.ts): the derivative list, the  *)
(* quality-tiered selection of a derivative, the progressive auto-load     *)
(* chain started from update(), the swap of the active derivative when a   *)
(* load resolves, inflation from data and disposal.                        *)
(*                                                                         *)
(* JavaScript runs every handler to completion, so each handler (a public  *)
(* method, or one promise callback) is one action.  A promise chain is a   *)
(* record in `chains`; its callbacks are separate actions.                 *)
(***************************************************************************)
EXTENDS Integers, Sequences, FiniteSets, Bags, TLC

\* ---------------------------------------------------------------- bounds
\* longest derivative list the selection is tried on
MaxSelLen == 3

\* autoLoad promise chains pending at the same time
MaxChains == 2

\* nodes the document's inner graph makes in a run, the root scene included
MaxNodes == 4

\* nodes in the scene of a document that is opened
MaxRoots == 2

\* ------------------------------------------------------- types and values
\* Model.ts:41-47, the ordered quality levels
qualityLevels == <<"Thumb", "Low", "Medium", "High", "Highest">>

Qualities == {qualityLevels[i] : i \in 1..Len(qualityLevels)}

\* EDerivativeUsage: Web is the default usage of every lookup
Usages == {"Web", "Print"}

\* JavaScript null for a Derivative reference
null == [id |-> 0, usage |-> "none", quality |-> "none"]

\* The Derivative objects the main specification works with
\* (new Derivative(usage, quality)); an object is identified by its id.
Pool ==
    { [id |-> 1, usage |-> "Web",   quality |-> "Thumb"],
      [id |-> 2, usage |-> "Web",   quality |-> "High"],
      [id |-> 3, usage |-> "Print", quality |-> "Thumb"] }

Ids == {d.id : d \in Pool}

\* THREE.Box3 values of Model.boundingBox
NullBox == <<"null">>
EmptyBox == <<"new Box3">>
DataBox == <<"modelData">>
DerivativeBox(d) == <<"derivative", d.id>>

Units == {"cm", "mm"}

VARIABLES
    derivatives,        \* Model.derivatives: sequence of Derivative objects
    activeDerivative,   \* Model.activeDerivative, or null
    units,              \* Model.units
    boundingBox,        \* Model.boundingBox
    boxFrame,           \* Model.boxFrame is set (not null)
    loadingManager,     \* Model.loadingManager is set (not null)
    children,           \* representations attached to Model.object3D
    rep,                \* per Derivative: state of derivative.model
    chains,             \* pending autoLoad promise chains (a bag)
    disposed,           \* Model.dispose() has run
    selected,           \* result of the last selectDerivative call
    last,               \* the handler that ran last, and its outcome
    graphNodes,         \* CVDocument.innerGraph: the nodes it holds
    edges,              \* transform hierarchy: <<child, parent>> pairs
    modelAssets,        \* derivatives registered on the nodes' models
    nextNode,           \* the node innerGraph.createCustomNode makes next
    assetPath,          \* CVDocument.outs.assetPath
    name                \* CVDocument.name

\* the fields of the Model component
modelFields == <<derivatives, activeDerivative, units, boundingBox, boxFrame,
                 loadingManager, children, rep, chains, disposed, selected>>

\* the state of the CVDocument component
document == <<graphNodes, edges, modelAssets, nextNode, assetPath, name>>

vars == <<derivatives, activeDerivative, units, boundingBox, boxFrame,
          loadingManager, children, rep, chains, disposed, selected,
          last, document>>

\* ------------------------------------------------------------ pure code
\* Array.prototype.indexOf, 1-based; 0 stands for JavaScript's -1
RECURSIVE IndexFrom(_, _, _)
IndexFrom(s, x, i) ==
    IF i > Len(s) THEN 0
    ELSE IF s[i] = x THEN i
    ELSE IndexFrom(s, x, i + 1)

IndexOf(s, x) == IndexFrom(s, x, 1)

\* Model.findDerivative: the first derivative of the list with the usage
\* and the quality, or null
RECURSIVE FindFrom(_, _, _, _)
FindFrom(list, quality, usage, i) ==
    IF i > Len(list) THEN null
    ELSE IF list[i] # null /\ list[i].usage = usage /\ list[i].quality = quality
         THEN list[i]
    ELSE FindFrom(list, quality, usage, i + 1)

FindIgnoringUsage(list, quality, usage) ==
    IF \E i \in 1..Len(list) : list[i].quality = quality
    THEN list[CHOOSE i \in 1..Len(list) :
                 /\ list[i].quality = quality
                 /\ \A j \in 1..(i - 1) : list[j].quality # quality]
    ELSE null

findDerivative(list, quality, usage) == FindFrom(list, quality, usage, 1)

\* Model.selectDerivative, the loop over the higher levels (ascending)
RECURSIVE SearchHigher(_, _, _)
SearchHigher(list, usage, i) ==
    IF i > Len(qualityLevels) THEN null
    ELSE IF findDerivative(list, qualityLevels[i], usage) # null
         THEN findDerivative(list, qualityLevels[i], usage)
    ELSE SearchHigher(list, usage, i + 1)

\* Model.selectDerivative, the loop over the lower levels (descending)
RECURSIVE SearchLower(_, _, _)
SearchLower(list, usage, i) ==
    IF i < 1 THEN null
    ELSE IF findDerivative(list, qualityLevels[i], usage) # null
         THEN findDerivative(list, qualityLevels[i], usage)
    ELSE SearchLower(list, usage, i - 1)

SelectLowerFirst(list, quality, usage) ==
    LET qualityIndex == IndexOf(qualityLevels, quality)
        exact == findDerivative(list, quality, usage)
        lower == SearchLower(list, usage, qualityIndex - 1)
    IN  IF exact # null THEN exact
        ELSE IF lower # null THEN lower
        ELSE SearchHigher(list, usage, qualityIndex + 1)

SelectLowestFallback(list, quality, usage) ==
    LET qualityIndex == IndexOf(qualityLevels, quality)
        exact == findDerivative(list, quality, usage)
        higher == SearchHigher(list, usage, qualityIndex + 1)
    IN  IF exact # null THEN exact
        ELSE IF higher # null THEN higher
        ELSE SearchHigher(list, usage, 1)

\* Model.selectDerivative: exact match, else next higher, else next lower,
\* else null.  Every quality of EDerivativeQuality is in qualityLevels, so
\* the "quality not supported" throw is not reachable.
selectDerivative(list, quality, usage) ==
    LET qualityIndex == IndexOf(qualityLevels, quality)
        exact == findDerivative(list, quality, usage)
        higher == SearchHigher(list, usage, qualityIndex + 1)
    IN  IF exact # null THEN exact
        ELSE IF higher # null THEN higher
        ELSE SearchLower(list, usage, qualityIndex - 1)

\* ------------------------------------------------------------- handlers
\* the record kept in `last`
\*   op       the handler
\*   d        the derivative it was about (dispose: the one active before)
\*   quality  the quality asked for
\*   usage    the usage asked for
\*   result   what the handler did
\*   emitted  the update notifications it emitted
\*   chain    the state it left its promise chain in
\*   issued   the loads that chain has started so far
Event(op, d, quality, usage, result, emitted, chain, issued) ==
    [op |-> op, d |-> d, quality |-> quality, usage |-> usage,
     result |-> result, emitted |-> emitted, chain |-> chain,
     issued |-> issued]

NoEvent == Event("create", null, "none", "none", "ok", 0, "none", 0)

\* field initialisers of the class, Model.ts:69-78, and create()
InitFields ==
    /\ activeDerivative = null
    /\ units = "cm"
    /\ boundingBox = EmptyBox
    /\ boxFrame = FALSE
    /\ loadingManager = FALSE
    /\ children = {}
    /\ rep = [i \in Ids |-> "none"]
    /\ chains = EmptyBag
    /\ disposed = FALSE
    /\ selected = null
    /\ last = NoEvent

\* CVDocument's constructor creates the root scene node (part_001:66-76);
\* nodes are numbered in the order innerGraph.createCustomNode makes them
RootScene == 1

\* the document after construction: the root scene and nothing else
InitDocument ==
    /\ graphNodes = {RootScene}
    /\ edges = {}
    /\ modelAssets = {}
    /\ nextNode = RootScene + 1
    /\ assetPath = ""
    /\ name = ""

Init ==
    /\ derivatives = <<>>
    /\ InitFields
    /\ InitDocument

Members(list) == {list[i] : i \in 1..Len(list)}

\* ------------------------------------------------ selection, stand-alone
\* every derivative list of up to MaxSelLen derivatives; the id of a
\* derivative is its position in the list
SelLists ==
    UNION { { [i \in 1..n |-> [id |-> i, usage |-> f[i][1], quality |-> f[i][2]]] :
                f \in [1..n -> Usages \X Qualities] } : n \in 0..MaxSelLen }

InitSelect ==
    /\ derivatives \in SelLists
    /\ InitFields
    /\ InitDocument

\* a call of selectDerivative(quality, usage) on the list
SelectDerivative(quality, usage) ==
    /\ selected' = selectDerivative(derivatives, quality, usage)
    /\ last' = Event("selectDerivative", null, quality, usage, "ok", 0, "none", 0)
    /\ UNCHANGED document
    /\ UNCHANGED <<derivatives, activeDerivative, units, boundingBox,
                   boxFrame, loadingManager, children, rep, chains,
                   disposed>>

NextSelect == \E quality \in Qualities, usage \in Usages :
                  SelectDerivative(quality, usage)

SpecSelect == InitSelect /\ [][NextSelect]_vars

\* ------------------------------------------------ the model component
\* the Box3Helper of boxFrame as a child of Model.object3D; the other
\* children are the representations (derivative.model), named by the id
BoxFrameChild == 0

\* Derivative.dispose(): releases the resources of derivative.model
DisposeDerivative(r, d) ==
    IF d.id \in DOMAIN r /\ r[d.id] = "live"
    THEN [r EXCEPT ![d.id] = "disposed"]
    ELSE r

\* derivatives.forEach(derivative => derivative.dispose())
RECURSIVE DisposeAll(_, _, _)
DisposeAll(r, list, i) ==
    IF i > Len(list) THEN r
    ELSE DisposeAll(DisposeDerivative(r, list[i]), list, i + 1)

\* Array.prototype.splice(index, 1): a negative index counts from the end,
\* so index -1 (here 0, "not found") removes the last element
SpliceOne(list, index) ==
    LET start == IF index >= 1 THEN index ELSE Len(list)
    IN  IF start < 1 THEN list
        ELSE SubSeq(list, 1, start - 1) \o SubSeq(list, start + 1, Len(list))

\* Model.addDerivative.  Every caller passes a Derivative that is not in
\* the list (addWebModelDerivative, addGeometryAndTextureDerivative and
\* fromData each create it), so the list holds an object at most once.
AddDerivative(d) ==
    /\ ~disposed
    /\ d \notin Members(derivatives)
    /\ derivatives' = Append(derivatives, d)
    /\ last' = Event("addDerivative", null, "none", "none", "ok", 0, "none", 0)
    /\ UNCHANGED document
    /\ UNCHANGED <<activeDerivative, units, boundingBox, boxFrame,
                   loadingManager, children, rep, chains, disposed, selected>>

\* Model.removeDerivative
RemoveDerivative(d) ==
    /\ ~disposed
    /\ derivatives' = SpliceOne(derivatives, IndexOf(derivatives, d))
    /\ last' = Event("removeDerivative", d, "none", "none", "ok", 0, "none", 0)
    /\ UNCHANGED document
    /\ UNCHANGED <<activeDerivative, units, boundingBox, boxFrame,
                   loadingManager, children, rep, chains, disposed, selected>>

\* Model.setLoadingManager
SetLoadingManager(manager) ==
    /\ ~disposed
    /\ loadingManager' = manager
    /\ last' = Event("setLoadingManager", null, "none", "none", "ok", 0, "none", 0)
    /\ UNCHANGED document
    /\ UNCHANGED <<derivatives, activeDerivative, units, boundingBox, boxFrame,
                   children, rep, chains, disposed, selected>>

\* a Derivative object nothing refers to and that was never loaded, as
\* `new Derivative(...)` makes one
Fresh(d) ==
    /\ d \notin Members(derivatives)
    /\ d # activeDerivative
    /\ rep[d.id] = "none"
    /\ \A c \in BagToSet(chains) : d \notin Members(c.seq)

\* the modelData values given to fromData: units, derivative records (each
\* becomes a new Derivative) and an optional bounding box
ModelData ==
    [units : Units,
     derivatives : {s \in UNION {[1..n -> {d \in Pool : Fresh(d)}] :
                                     n \in 0..Cardinality(Pool)} :
                       \A i, j \in 1..Len(s) : i # j => s[i] # s[j]},
     boundingBox : BOOLEAN]

\* Model.fromData
FromData(modelData) ==
    /\ ~disposed
    /\ units' = modelData.units
    /\ IF Len(derivatives) > 0
       THEN /\ last' = Event("fromData", null, "none", "none", "threw", 0, "none", 0)
            /\ UNCHANGED <<derivatives, boundingBox, boxFrame, children>>
       ELSE /\ derivatives' = derivatives \o modelData.derivatives
            /\ IF modelData.boundingBox
               THEN /\ boundingBox' = DataBox
                    /\ boxFrame' = TRUE
                    /\ children' = children \cup {BoxFrameChild}
                    /\ last' = Event("fromData", null, "none", "none", "ok", 1, "none", 0)
               ELSE /\ last' = Event("fromData", null, "none", "none", "ok", 0, "none", 0)
                    /\ UNCHANGED <<boundingBox, boxFrame, children>>
    /\ UNCHANGED document
    /\ UNCHANGED <<activeDerivative, loadingManager, rep, chains, disposed,
                   selected>>

ThumbLast(list, quality) ==
    LET thumb == findDerivative(list, "Thumb", "Web")
        second == selectDerivative(list, quality, "Web")
        first == IF second # null THEN <<second>> ELSE <<>>
    IN  IF thumb # null THEN Append(first, thumb) ELSE first

\* Model.autoLoad, the load sequence: the web thumb if there is one, then
\* the derivative selected for the quality if there is one
AutoLoadSequence(list, quality) ==
    LET thumb == findDerivative(list, "Thumb", "Web")
        second == selectDerivative(list, quality, "Web")
        first == IF thumb # null THEN <<thumb>> ELSE <<>>
    IN  IF second # null THEN Append(first, second) ELSE first

\* the promise chain autoLoad builds with reduce: the loads of seq one
\* after the other.  resolved = loads of the chain whose callback has run,
\* issued = loads started; st is "ready" when the next callback is queued
\* and "loading" while derivative.load() is pending.
NewChain(seq) ==
    [seq |-> seq, issued |-> 0, resolved |-> 0, st |-> "ready"]

\* chain c of the pending chains replaced by chain n
Replace(cs, c, n) == (cs (-) SetToBag({c})) (+) SetToBag({n})

\* Model.update with ins.quality and ins.autoLoad as they are at the tick.
\* A rejected autoLoad is caught and logged (the .catch of update).  The
\* pose of object3D, which update also refreshes, is not part of the model.
Update(quality, autoLoad) ==
    /\ ~disposed
    /\ IF activeDerivative = null /\ autoLoad
       THEN LET sequence == AutoLoadSequence(derivatives, quality)
            IN  IF Len(sequence) = 0
                THEN /\ last' = Event("update", null, "none", "Web", "autoLoad",
                                      0, "rejected", 0)
                     /\ UNCHANGED chains
                ELSE /\ BagCardinality(chains) < MaxChains
                     /\ chains' = chains (+) SetToBag({NewChain(sequence)})
                     /\ last' = Event("update", null, "none", "Web", "autoLoad",
                                      0, "pending", 0)
       ELSE /\ last' = Event("update", null, "none", "none", "idle", 0, "none", 0)
            /\ UNCHANGED chains
    /\ UNCHANGED document
    /\ UNCHANGED <<derivatives, activeDerivative, units, boundingBox, boxFrame,
                   loadingManager, children, rep, disposed, selected>>

\* the first callback () => this.loadDerivative(derivative) of chain c, up
\* to the call of derivative.load(): throws without a loading manager, which
\* rejects the chain (caught and logged by update's .catch)
StartLoad(c) ==
    /\ c.st = "ready"
    /\ LET d == c.seq[c.resolved + 1]
       IN  IF ~loadingManager
           THEN /\ chains' = chains (-) SetToBag({c})
                /\ last' = Event("loadDerivative", d, "none", "Web", "threw",
                                 0, "rejected", c.issued)
           ELSE /\ chains' = Replace(chains, c,
                                [c EXCEPT !.st = "loading", !.issued = @ + 1])
                /\ last' = Event("loadDerivative", d, "none", "Web", "loading",
                                 0, "pending", c.issued + 1)
    /\ UNCHANGED document
    /\ UNCHANGED <<derivatives, activeDerivative, units, boundingBox, boxFrame,
                   loadingManager, children, rep, disposed, selected>>

KeepOldChild(kids, old, d) == kids \cup {d.id}

\* the children of object3D after the swap: the representation of the
\* derivative that was active is removed, the one of d is added
SwapChildren(kids, old, d) ==
    (IF old # null THEN kids \ {old.id} ELSE kids) \cup {d.id}

\* what a pending derivative.load() can do: reject, resolve leaving
\* derivative.model unset, resolve with a model and no bounding box,
\* resolve with a model and a bounding box
Outcomes == {"rejected", "nomodel", "model", "model+box"}

\* the pending chains after the callback of c's current load returned.
\* The callback of the next load is a microtask queued by that return: it
\* runs before any other handler, so the next loadDerivative call is part
\* of this step (it throws without a loading manager).
Advance(cs, c) ==
    IF c.resolved + 1 = Len(c.seq) \/ ~loadingManager
    THEN cs (-) SetToBag({c})
    ELSE Replace(cs, c, [c EXCEPT !.resolved = @ + 1, !.issued = @ + 1])

\* the state of chain c after that
AfterCallback(c) ==
    IF c.resolved + 1 = Len(c.seq) THEN "resolved"
    ELSE IF ~loadingManager THEN "rejected"
    ELSE "pending"

\* the loads chain c has started after that
IssuedAfter(c) ==
    IF c.resolved + 1 = Len(c.seq) \/ ~loadingManager
    THEN c.issued
    ELSE c.issued + 1

\* the load of chain c settles: Derivative.load sets derivative.model, then
\* the .then callback of Model.loadDerivative runs
LoadSettled(c, outcome) ==
    /\ c.st = "loading"
    /\ LET derivative == c.seq[c.resolved + 1]
           loaded == [rep EXCEPT ![derivative.id] = "live"]
           detached == IF boxFrame THEN children \ {BoxFrameChild} ELSE children
       IN  CASE outcome = "rejected" ->
                  /\ chains' = chains (-) SetToBag({c})
                  /\ last' = Event("loadSettled", derivative, "none", "Web",
                                   outcome, 0, "rejected", c.issued)
                  /\ UNCHANGED <<activeDerivative, boundingBox, children, rep>>
             [] outcome = "nomodel" ->
                  /\ rep[derivative.id] = "none"
                  /\ chains' = Advance(chains, c)
                  /\ last' = Event("loadSettled", derivative, "none", "Web",
                                   outcome, 0, AfterCallback(c), IssuedAfter(c))
                  /\ UNCHANGED <<activeDerivative, boundingBox, children, rep>>
             [] OTHER ->
                  /\ rep' = IF activeDerivative # null
                            THEN DisposeDerivative(loaded, activeDerivative)
                            ELSE loaded
                  /\ boundingBox' = IF boundingBox = NullBox /\ outcome = "model+box"
                                    THEN DerivativeBox(derivative)
                                    ELSE boundingBox
                  /\ activeDerivative' = derivative
                  /\ children' = SwapChildren(detached, activeDerivative,
                                               derivative)
                  /\ IF outcome = "model+box"
                     THEN /\ chains' = Advance(chains, c)
                          /\ last' = Event("loadSettled", derivative, "none",
                                           "Web", outcome, 1, AfterCallback(c),
                                           IssuedAfter(c))
                     ELSE /\ chains' = chains (-) SetToBag({c})
                          /\ last' = Event("loadSettled", derivative, "none",
                                           "Web", outcome, 1, "rejected", c.issued)
    /\ UNCHANGED document
    /\ UNCHANGED <<derivatives, units, boxFrame, loadingManager, disposed,
                   selected>>

\* Model.dispose.  It removes no child of object3D; callbacks of pending
\* loads still run afterwards.
Dispose ==
    /\ ~disposed
    /\ rep' = DisposeAll(rep, derivatives, 1)
    /\ activeDerivative' = null
    /\ disposed' = TRUE
    /\ last' = Event("dispose", activeDerivative, "none", "none", "ok", 0, "none", 0)
    /\ UNCHANGED document
    /\ UNCHANGED <<derivatives, units, boundingBox, boxFrame, loadingManager,
                   children, chains, selected>>

Next ==
    \/ \E d \in Pool : AddDerivative(d)
    \/ \E d \in Pool : RemoveDerivative(d)
    \/ \E manager \in {TRUE} : SetLoadingManager(manager)
    \/ \E modelData \in ModelData : FromData(modelData)
    \/ \E quality \in Qualities, autoLoad \in BOOLEAN : Update(quality, autoLoad)
    \/ \E c \in BagToSet(chains) : StartLoad(c)
    \/ \E c \in BagToSet(chains), outcome \in Outcomes : LoadSettled(c, outcome)
    \/ Dispose

Spec == Init /\ [][Next]_vars

\* ------------------------------------------------ the document component
\* CVDocument (part_001): the inner graph of nodes, openDocument,
\* appendModel and appendGeometry.
\* A node argument (parent, mergeParent) is a JavaScript value:
\*   type    what typeof yields for it
\*   truthy  whether it counts as true in a condition
\*   graph   for a node, whether node.graph is this document's innerGraph
\*   node    for a node of the inner graph, its number
Undefined == [type |-> "undefined", truthy |-> FALSE, graph |-> "none", node |-> 0]
Boolean(b) == [type |-> "boolean", truthy |-> b, graph |-> "none", node |-> 0]
NullRef == [type |-> "object", truthy |-> FALSE, graph |-> "none", node |-> 0]
NodeRef(n) == [type |-> "object", truthy |-> TRUE, graph |-> "inner", node |-> n]
\* a node (NVNode or NVScene) that belongs to another graph
ForeignNode == [type |-> "object", truthy |-> TRUE, graph |-> "other", node |-> 0]

\* the parent arguments of appendModel and appendGeometry
Parents == {Undefined, ForeignNode} \cup {NodeRef(n) : n \in graphNodes}

\* the mergeParent arguments of openDocument
MergeParents ==
    {Undefined, NullRef, Boolean(FALSE), Boolean(TRUE), ForeignNode}
        \cup {NodeRef(n) : n \in graphNodes}

\* document data: whether the schema validator accepts it, the number of
\* nodes of its scene, and whether the first of them has a child node.
\* Data the validator rejects is never imported, so one such value stands
\* for all of them.
DocumentData ==
    [valid : {TRUE}, roots : 1..MaxRoots, nested : BOOLEAN]
        \cup {[valid |-> FALSE, roots |-> 1, nested |-> FALSE]}

AssetPaths == {"", "a/document.json"}

AssetQualities == {"High"}

\* CVAssetReader.getAssetName(assetPath)
getAssetName(path) == <<"asset name of", path>>

\* transform.children of node n
Children(es, n) == {e[1] : e \in {x \in es : x[2] = n}}

\* node n with everything below it in the transform hierarchy
RECURSIVE Subtree(_, _)
Subtree(es, n) == {n} \cup UNION {Subtree(es, c) : c \in Children(es, n)}

\* CVDocument.clearNodeTree: child.node.dispose() for every child of the
\* root scene; Node.dispose() takes the node, the nodes below it (Subtree)
\* and their components out of the graph
ClearNodeTree(nodes, es, assets) ==
    LET gone == UNION {Subtree(es, c) : c \in Children(es, RootScene)}
    IN  [nodes  |-> nodes \ gone,
         edges  |-> {e \in es : e[1] \notin gone /\ e[2] \notin gone},
         assets |-> {a \in assets : a.node \notin gone}]

\* what the handler that ran last was called with, and how it ended
\*   valid      for openDocument, whether the validator accepted the data
\*   assetPath  the asset path argument
\*   parent     the parent or mergeParent argument
\*   empty      for the appends, what isEmpty() returned
DocEvent(op, valid, path, parent, empty, result) ==
    [op |-> op, valid |-> valid, assetPath |-> path,
     parent |-> parent, empty |-> empty, result |-> result]

\* NVNode.fromDocument: an imported node makes its child nodes below
\* itself; first is the first node of the import
NestedEdges(documentData, first) ==
    IF documentData.nested
    THEN {<<first + documentData.roots, first>>}
    ELSE {}

\* openDocument with the validation moved behind the clearing of the tree
ClearBeforeValidation(documentData, mergeParent) ==
    IF ~documentData.valid
    THEN [clear |-> ~mergeParent.truthy, parent |-> NullRef,
          result |-> "document schema validation failed"]
    ELSE LET parent == IF mergeParent.type = "object" THEN mergeParent
                       ELSE NodeRef(RootScene)
         IN  [clear |-> ~mergeParent.truthy, parent |-> parent,
              result |-> IF parent = NullRef THEN "TypeError"
                         ELSE IF parent.graph # "inner" THEN "invalid parent node"
                         ELSE "ok"]

\* openDocument clearing the tree whether or not it merges
MergeAlsoClears(documentData, mergeParent) ==
    IF ~documentData.valid
    THEN [clear |-> FALSE, parent |-> NullRef,
          result |-> "document schema validation failed"]
    ELSE LET parent == IF mergeParent.type = "object" THEN mergeParent
                       ELSE NodeRef(RootScene)
         IN  [clear |-> TRUE, parent |-> parent,
              result |-> IF parent = NullRef THEN "TypeError"
                         ELSE IF parent.graph # "inner" THEN "invalid parent node"
                         ELSE "ok"]

\* the path openDocument takes up to the import (part_001:135-146):
\* whether it clears the node tree, the parent it resolves, and the error
\* it throws, if any.  Reading parent.graph of null throws a TypeError.
OpenSteps(documentData, mergeParent) ==
    IF ~documentData.valid
    THEN [clear |-> FALSE, parent |-> NullRef,
          result |-> "document schema validation failed"]
    ELSE LET parent == IF mergeParent.type = "object" THEN mergeParent
                       ELSE NodeRef(RootScene)
         IN  [clear |-> ~mergeParent.truthy, parent |-> parent,
              result |-> IF parent = NullRef THEN "TypeError"
                         ELSE IF parent.graph # "inner" THEN "invalid parent node"
                         ELSE "ok"]

\* CVDocument.openDocument.  The import (NVScene.fromDocument for the root
\* scene, else one new NVNode per node of the document's scene and
\* NVNode.fromDocument) makes the document's nodes below the parent.
OpenDocument(documentData, path, mergeParent) ==
    LET steps == OpenSteps(documentData, mergeParent)
        g == IF steps.clear
             THEN ClearNodeTree(graphNodes, edges, modelAssets)
             ELSE [nodes |-> graphNodes, edges |-> edges, assets |-> modelAssets]
        count == documentData.roots + (IF documentData.nested THEN 1 ELSE 0)
        roots == nextNode..(nextNode + documentData.roots - 1)
    IN  /\ steps.result = "ok" => nextNode + count - 1 <= MaxNodes
        /\ modelAssets' = g.assets
        /\ IF steps.result = "ok"
           THEN /\ graphNodes' = g.nodes \cup (nextNode..(nextNode + count - 1))
                /\ edges' = g.edges
                       \cup {<<r, steps.parent.node>> : r \in roots}
                       \cup NestedEdges(documentData, nextNode)
                /\ nextNode' = nextNode + count
                /\ assetPath' = IF path # "" THEN path ELSE assetPath
                /\ name' = IF path # "" THEN getAssetName(path) ELSE name
           ELSE /\ graphNodes' = g.nodes
                /\ edges' = g.edges
                /\ UNCHANGED <<nextNode, assetPath, name>>
        /\ last' = DocEvent("openDocument", documentData.valid, path, mergeParent,
                            FALSE, steps.result)
        /\ UNCHANGED modelFields

\* the guards without the test of the parent's graph
GuardWithoutParentTest(parent, isEmpty) ==
    IF isEmpty THEN "empty document" ELSE "ok"

\* the guards of appendModel and appendGeometry (part_001:173-178 and
\* 191-196); isEmpty is the result of CGraph.isEmpty()
AppendGuard(parent, isEmpty) ==
    IF parent.truthy /\ parent.graph # "inner" THEN "invalid parent node"
    ELSE IF isEmpty THEN "empty document"
    ELSE "ok"

\* the body shared by appendModel and appendGeometry: a new node below the
\* parent (the root scene by default), with a model and one derivative
AppendAsset(op, kind, path, quality, parent, isEmpty) ==
    LET result == AppendGuard(parent, isEmpty)
        target == IF parent.truthy THEN parent.node ELSE RootScene
    IN  /\ result = "ok" => nextNode <= MaxNodes
        /\ IF result = "ok"
           THEN /\ graphNodes' = graphNodes \cup {nextNode}
                /\ edges' = edges \cup {<<nextNode, target>>}
                /\ modelAssets' = modelAssets \cup
                       {[node |-> nextNode, kind |-> kind, quality |-> quality]}
                /\ nextNode' = nextNode + 1
                /\ UNCHANGED <<assetPath, name>>
           ELSE UNCHANGED document
        /\ last' = DocEvent(op, TRUE, path, parent, isEmpty, result)
        /\ UNCHANGED modelFields

\* CVDocument.appendModel
AppendModel(path, quality, parent, isEmpty) ==
    AppendAsset("appendModel", "model", path, quality, parent, isEmpty)

\* CVDocument.appendGeometry
AppendGeometry(path, quality, parent, isEmpty) ==
    AppendAsset("appendGeometry", "mesh", path, quality, parent, isEmpty)

NextDoc ==
    \/ \E documentData \in DocumentData, path \in AssetPaths,
          mergeParent \in MergeParents :
            OpenDocument(documentData, path, mergeParent)
    \/ \E quality \in AssetQualities, parent \in Parents, isEmpty \in BOOLEAN :
            AppendModel("model.glb", quality, parent, isEmpty)
    \/ \E quality \in AssetQualities, parent \in Parents, isEmpty \in BOOLEAN :
            AppendGeometry("mesh.obj", quality, parent, isEmpty)

SpecDoc == Init /\ [][NextDoc]_vars

\* ----------------------------------------------------------- selection
Rank(quality) == IndexOf(qualityLevels, quality)

WithUsage(list, usage) == {d \in Members(list) : d.usage = usage}

\* C1: selectDerivative(q, usage) returns an exact match when there is one;
\* when there is none but a derivative of that usage has a strictly higher
\* quality, it returns a derivative of the lowest such higher quality, also
\* when lower qualities are present.
C1_SelectExactOrNextHigher ==
    last.op = "selectDerivative" =>
        LET q == last.quality
            cand == WithUsage(derivatives, last.usage)
            higher == {d \in cand : Rank(d.quality) > Rank(q)}
        IN  /\ (\E d \in cand : d.quality = q) =>
                   (selected \in cand /\ selected.quality = q)
            /\ ((\A d \in cand : d.quality # q) /\ higher # {}) =>
                   /\ selected \in higher
                   /\ \A d \in higher : Rank(selected.quality) <= Rank(d.quality)

\* the case of C1's example: Low and High present, Medium requested
C1_Witness ==
    /\ last.op = "selectDerivative"
    /\ last.quality = "Medium"
    /\ \E d \in WithUsage(derivatives, last.usage) : d.quality = "Low"
    /\ \E d \in WithUsage(derivatives, last.usage) : d.quality = "High"
    /\ \A d \in WithUsage(derivatives, last.usage) : d.quality # "Medium"
    /\ selected.quality = "High"

\* C2: when no derivative of the usage has quality q or higher, the result
\* is a derivative of the highest quality below q; when no derivative of
\* the usage exists, the result is null; a result other than null is a
\* member of the list and has the requested usage.
C2_SelectNextLowerOrNone ==
    last.op = "selectDerivative" =>
        LET q == last.quality
            cand == WithUsage(derivatives, last.usage)
            lower == {d \in cand : Rank(d.quality) < Rank(q)}
        IN  /\ (cand # {} /\ cand = lower) =>
                   /\ selected \in lower
                   /\ \A d \in lower : Rank(selected.quality) >= Rank(d.quality)
            /\ (cand = {}) => (selected = null)
            /\ (selected # null) => (selected \in cand)

\* only lower qualities present, two of them: the higher of the two is taken
C2_Witness ==
    /\ last.op = "selectDerivative"
    /\ last.quality = "High"
    /\ \E d \in WithUsage(derivatives, last.usage) : d.quality = "Thumb"
    /\ \E d \in WithUsage(derivatives, last.usage) : d.quality = "Medium"
    /\ \A d \in WithUsage(derivatives, last.usage) : Rank(d.quality) < Rank("High")
    /\ WithUsage(derivatives, last.usage) # Members(derivatives)
    /\ selected.quality = "Medium"

\* ------------------------------------------------------------- loading
HasWeb(quality) == \E d \in WithUsage(derivatives, "Web") : d.quality = quality

\* a chain planned for two loads, the web thumb first
TwoLoads(c) ==
    /\ Len(c.seq) = 2
    /\ c.seq[1].quality = "Thumb"
    /\ c.seq[1].usage = "Web"

\* the loads of chain c that are pending
Outstanding(c) == IF c.st = "loading" THEN 1 ELSE 0

\* the step ends chain c (it resolves or is rejected)
Ends(c) ==
    /\ last'.chain \in {"resolved", "rejected"}
    /\ \/ last'.op = "loadDerivative" /\ StartLoad(c)
       \/ last'.op = "loadSettled" /\ LoadSettled(c, last'.result)

\* C3 as stated: autoLoad(q) on a model with a web Thumb derivative and a
\* web derivative of quality q issues exactly two loads, so the chain of
\* such a call never ends with fewer than two loads started.  (A chain
\* <<thumb, d>> is the chain of autoLoad(d.quality).)
C3_ExactlyTwoLoads ==
    [][\A c \in BagToSet(chains) :
           (TwoLoads(c) /\ Ends(c)) => last'.issued = 2]_vars

\* C3 amended: autoLoad(q) on a model with a web Thumb derivative and a web
\* derivative of quality q plans two loads, the Thumb derivative first and
\* the derivative of quality q second; the chain starts at most two loads,
\* the second only after the first has resolved, and exactly two when the
\* loading manager is set and loadDerivative of the Thumb resolves.
C3_ThumbThenTargetInSequence ==
    /\ [][\A q \in Qualities :
              (last'.op = "update" /\ activeDerivative = null
                   /\ HasWeb("Thumb") /\ HasWeb(q) /\ Update(q, TRUE)) =>
                  \E n \in BagToSet(chains') :
                      /\ CopiesIn(n, chains') = CopiesIn(n, chains) + 1
                      /\ Len(n.seq) = 2
                      /\ n.seq[1] \in WithUsage(derivatives, "Web")
                      /\ n.seq[1].quality = "Thumb"
                      /\ n.seq[2] \in WithUsage(derivatives, "Web")
                      /\ n.seq[2].quality = q
                      /\ n.issued = 0]_vars
    /\ [](\A c \in BagToSet(chains) :
              /\ c.issued <= Len(c.seq)
              /\ c.issued = c.resolved + Outstanding(c))
    /\ [][\A c \in BagToSet(chains) :
              (TwoLoads(c) /\ Ends(c) /\ last'.chain = "resolved") =>
                  (c.issued = 2 /\ c.resolved = 1 /\ last'.d = c.seq[2])]_vars
    /\ [][\A c \in BagToSet(chains) :
              (last'.op = "loadSettled" /\ last'.result \in {"nomodel", "model+box"}
                   /\ TwoLoads(c) /\ c.resolved = 0 /\ loadingManager
                   /\ LoadSettled(c, last'.result)) =>
                  LET n == [c EXCEPT !.resolved = 1, !.issued = 2]
                  IN  CopiesIn(n, chains') >= 1]_vars

\* both loads of autoLoad("High") were issued and resolved, thumb first
C3_Witness ==
    /\ last.op = "loadSettled"
    /\ last.chain = "resolved"
    /\ last.issued = 2
    /\ last.d.quality = "High"
    /\ activeDerivative = last.d
    /\ rep[1] = "disposed"

\* the chains whose load is pending
Loading == {c \in BagToSet(chains) : c.st = "loading"}

\* C4: at most one derivative load of the model is in flight at any time.
C4_NoOverlappingLoads ==
    /\ Cardinality(Loading) <= 1
    /\ \A c \in Loading : CopiesIn(c, chains) = 1

C6_BoundingBoxFromDerivative ==
    [][(last'.op = "loadSettled" /\ last'.result = "model+box") =>
          IF boundingBox \in {NullBox, EmptyBox}
          THEN boundingBox' = DerivativeBox(last'.d)
          ELSE boundingBox' = boundingBox]_vars

\* C7: dispose releases the resources of the derivative that is active at
\* that moment and clears activeDerivative.
C7_DisposeReleasesActive ==
    last.op = "dispose" =>
        /\ activeDerivative = null
        /\ last.d # null => rep[last.d.id] # "live"

\* C8: after a load started from update() has failed, the model is without
\* an active derivative, so that the next update tick with auto-load
\* enabled calls autoLoad again.
C8_FailedLoadRetried ==
    (last.op = "loadSettled" /\ last.result = "rejected" /\ ~disposed) =>
        activeDerivative = null

\* C9: autoLoad(q) on a model with no web Thumb derivative and no
\* derivative that selectDerivative(q) can return (no web derivative of
\* any quality) is rejected, starts no load and leaves the active
\* derivative as it was.
C9_NothingToLoadRejected ==
    [][(last'.op = "update" /\ last'.result = "autoLoad"
                /\ ~HasWeb("Thumb")
                /\ WithUsage(derivatives, "Web") = {}) =>
           /\ last'.chain = "rejected"
           /\ chains' = chains
           /\ activeDerivative' = activeDerivative]_vars

\* autoLoad was rejected on a model whose only derivatives are not for web
C9_Witness ==
    /\ last.op = "update"
    /\ last.chain = "rejected"
    /\ derivatives # <<>>
    /\ chains = EmptyBag
    /\ activeDerivative = null

\* C10: fromData on a model that has a derivative fails and changes
\* nothing: the derivative list is as before and no part of modelData has
\* been taken over.
C10_FailedInflateChangesNothing ==
    [][(last'.op = "fromData" /\ last'.result = "threw") =>
          /\ Len(derivatives) > 0
          /\ derivatives' = derivatives
          /\ UNCHANGED <<units, boundingBox, boxFrame, children>>]_vars

\* ------------------------------------------------------------- document
\* C11: appendModel and appendGeometry called with a parent that is not a
\* node of this document's inner graph, or on a document that is empty,
\* fail with an error and leave the document as it was: no node is
\* created, no child attached, no derivative registered.
C11_FailedAppendChangesNothing ==
    [][(/\ last'.op \in {"appendModel", "appendGeometry"}
        /\ last'.parent = ForeignNode \/ last'.empty)
       => /\ last'.result # "ok"
          /\ UNCHANGED document]_vars

\* an append below a node of another graph has failed on a document that
\* holds nodes and derivatives
C11_Witness ==
    /\ last.op \in {"appendModel", "appendGeometry"}
    /\ last.parent = ForeignNode
    /\ last.result = "invalid parent node"
    /\ modelAssets # {}

\* C12: openDocument with data the schema validator rejects fails before
\* it changes anything, with or without a merge target: the node tree is
\* not cleared, no node is created, asset path and name stay as they were.
C12_InvalidDataChangesNothing ==
    [][(/\ last'.op = "openDocument"
        /\ ~last'.valid)
       => /\ last'.result = "document schema validation failed"
          /\ UNCHANGED document]_vars

\* invalid data was opened without a merge target, under a new asset
\* path, on a document whose root scene has children
C12_Witness ==
    /\ last.op = "openDocument"
    /\ ~last.valid
    /\ ~last.parent.truthy
    /\ last.assetPath # assetPath
    /\ Children(edges, RootScene) # {}

\* C13: openDocument with valid data and no merge target disposes every
\* node below the root scene first, so that afterwards the graph holds the
\* root scene and the nodes this open made, and nothing else; with a merge
\* target no node is disposed, and the nodes a successful open makes are
\* below the resolved parent.
C13_OpenClearsUnlessMerging ==
    [][(/\ last'.op = "openDocument"
        /\ last'.valid)
       => LET created == nextNode..(nextNode' - 1)
              target == IF last'.parent.type = "object"
                        THEN last'.parent.node ELSE RootScene
          IN  IF ~last'.parent.truthy
              THEN /\ graphNodes' = {RootScene} \cup created
                   /\ \A e \in edges' : e[1] \in created
              ELSE /\ graphNodes \subseteq graphNodes'
                   /\ edges \subseteq edges'
                   /\ modelAssets' = modelAssets
                   /\ last'.result = "ok" =>
                        /\ created # {}
                        /\ created \subseteq Subtree(edges', target) \ {target}]_vars

\* a second open without a merge target has replaced the nodes of the
\* first by its own
C13_Witness ==
    /\ last.op = "openDocument"
    /\ last.result = "ok"
    /\ ~last.parent.truthy
    /\ RootScene + 1 \notin graphNodes
    /\ Cardinality(graphNodes) > 1

\* ------------------------------------------------- disposal and removal
\* C14: once dispose() has run, the model never gets an active derivative
\* again and no representation is attached to it, also when a load that
\* was started before dispose() completes after it.
C14_NothingLoadsAfterDispose ==
    [][disposed => /\ activeDerivative' = null
                   /\ children' \subseteq children]_vars

\* C15: the active derivative has not been disposed since the load that
\* made it active: its attached representation is live.
C15_ActiveDerivativeIsLive ==
    activeDerivative # null => rep[activeDerivative.id] = "live"

\* C16: removeDerivative(d) removes at most d: the derivatives other than
\* d stay in the list in their order, and the list is left as it was when
\* d is not in it.
C16_RemoveTakesOnlyThat ==
    [][last'.op = "removeDerivative"
       => LET d == last'.d
              Other(x) == x # d
          IN  /\ SelectSeq(derivatives', Other) = SelectSeq(derivatives, Other)
              /\ d \notin Members(derivatives) => derivatives' = derivatives]_vars
====
